---- MODULE Spec2Model ----
(***************************************************************************)
(* A model of go-pf: Rule / RuleSet / Anchor assembly, the Firewall        *)
(* operations and the pfctl executor they all go through.                  *)
(*                                                                         *)
(* Texts are TLA+ strings, so that serialisation is computed the way the   *)
(* code computes it (fmt.Sprintf concatenation, strings.Join).             *)
(***************************************************************************)
EXTENDS Integers, Sequences, FiniteSets, TLC

VARIABLES
    rule,       \* the Rule value the caller holds (rule.go: type Rule)
    anchor,     \* the Anchor: Name and RuleSet.Rules
    pfRunning,  \* the packet filter's own state, changed only by pfctl -e / -d
    op,         \* the operation that ran last
    arg,        \* its argument
    ret,        \* what it returned
    calls,      \* the pfctl invocations it made, in order
    prev,       \* op, ret and calls of the lifecycle operation before it
    hist        \* history of the Anchor, kept for the properties only:
                \*   added    the committed Rules handed to AddRule, in order
                \*   sent     the number of rules in the payload of the latest
                \*            Commit before the last operation (-1: none yet)
                \*   flushed  whether a Flush ran before the last operation

vars == <<rule, anchor, pfRunning, op, arg, ret, calls, prev, hist>>

----------------------------------------------------------------------------
(* Enumerations (pf.go, const blocks)                                      *)

ProtocolTcp == 0
ProtocolUdp == 1
ProtocolIcmp == 2
ProtocolIcmpv6 == 3
ProtocolUnknown == 4

DirectionIn == 0
DirectionOut == 1
DirectionUnknown == 2

ActionPass == 0
ActionBlock == 1
ActionUnknown == 2

AdressFamilyInet == 0
AdressFamilyInetv6 == 1

\* Values handed to the enum setters: every named value and one past the last
\* (the types are plain ints, so any int can be passed).
ProtocolInputs == ProtocolTcp .. (ProtocolUnknown + 1)
DirectionInputs == DirectionIn .. (DirectionUnknown + 1)
ActionInputs == ActionPass .. (ActionUnknown + 1)
AddrFamInputs == AdressFamilyInet .. (AdressFamilyInetv6 + 1)

----------------------------------------------------------------------------
(* net.IP, net.IPMask and net.IPNet as the code uses them.  An IP and a    *)
(* mask are tuples of bytes; the nil IP is the empty tuple.                *)

NilIP == <<>>

\* A nil *net.IPNet (Rule.Source / Rule.Destination of a fresh Rule).  No
\* parsed network has an empty mask, so the value is distinct from all of them.
NilNet == [IP |-> <<>>, Mask |-> <<>>]

\* net.IPv4Mask(255, 255, 255, 255), the default of parseIP
HostMask == <<255, 255, 255, 255>>

\* net.ParseIP on the address texts the model passes: the 4 bytes, or nil.
ParseIP(s) ==
    CASE s = "10.0.0.1" -> <<10, 0, 0, 1>>
      [] s = "192.168.1.5" -> <<192, 168, 1, 5>>
      [] s = "123.123.123.123" -> <<123, 123, 123, 123>>
      [] OTHER -> NilIP

\* strings.SplitN(m, ".", 4) followed by strconv.ParseInt of each part, on the
\* netmask texts the model passes: ok is FALSE when a part is no integer.
MaskParts(m) ==
    CASE m = "255.255.255.0" -> [ok |-> TRUE, ints |-> <<255, 255, 255, 0>>]
      [] m = "255.255.0.0" -> [ok |-> TRUE, ints |-> <<255, 255, 0, 0>>]
      [] m = "255.255.256.0" -> [ok |-> TRUE, ints |-> <<255, 255, 256, 0>>]
      [] m = "255.255.255" -> [ok |-> TRUE, ints |-> <<255, 255, 255>>]
      [] OTHER -> [ok |-> FALSE, ints |-> <<>>]

\* fullNetmaskToBytes: the parts in 0..255 are kept, and exactly four of them
\* make a mask.
fullNetmaskToBytes(m) ==
    LET p == MaskParts(m)
        tBytes == SelectSeq(p.ints, LAMBDA t : t >= 0 /\ t <= 255)
    IN IF ~p.ok THEN [err |-> TRUE, mask |-> <<>>]
       ELSE IF Len(tBytes) = 4 THEN [err |-> FALSE, mask |-> tBytes]
       ELSE [err |-> TRUE, mask |-> <<>>]

\* parseIP(i, m): the parsed address (nil when malformed) with the host mask,
\* or with the one netmask given when it converts.
parseIP(i, m) ==
    LET ipAddr == ParseIP(i)
        conv == fullNetmaskToBytes(m[1])
        netMask == IF Len(m) = 1 /\ ~conv.err THEN conv.mask ELSE HostMask
    IN [IP |-> ipAddr, Mask |-> netMask]

\* The number of leading one bits of a mask byte, -1 when its ones are not
\* leading (net.simpleMaskLength, byte by byte).
ByteOnes(b) ==
    CASE b = 255 -> 8 [] b = 254 -> 7 [] b = 252 -> 6 [] b = 248 -> 5
      [] b = 240 -> 4 [] b = 224 -> 3 [] b = 192 -> 2 [] b = 128 -> 1
      [] b = 0 -> 0 [] OTHER -> -1

RECURSIVE MaskLenFrom(_, _)
MaskLenFrom(mask, i) ==
    IF i > Len(mask) THEN 0
    ELSE LET n == ByteOnes(mask[i])
         IN IF n = -1 THEN -1
            ELSE IF n = 8
                 THEN LET rest == MaskLenFrom(mask, i + 1)
                      IN IF rest = -1 THEN -1 ELSE 8 + rest
                 ELSE IF \A j \in (i + 1) .. Len(mask) : mask[j] = 0 THEN n ELSE -1

simpleMaskLength(mask) == MaskLenFrom(mask, 1)

\* The mask of a prefix length (net.CIDRMask(n, 32)).
PrefixByte(n) ==
    CASE n >= 8 -> 255 [] n = 7 -> 254 [] n = 6 -> 252 [] n = 5 -> 248
      [] n = 4 -> 240 [] n = 3 -> 224 [] n = 2 -> 192 [] n = 1 -> 128
      [] OTHER -> 0

CIDRMask(n) == [i \in 1 .. 4 |-> PrefixByte(n - 8 * (i - 1))]

\* Bitwise and of two bytes.
RECURSIVE ByteAnd(_, _, _)
ByteAnd(a, b, bits) ==
    IF bits = 0 THEN 0
    ELSE 2 * ByteAnd(a \div 2, b \div 2, bits - 1) + ((a % 2) * (b % 2))

\* IP.Mask(mask)
MaskIP(ip, mask) == [i \in 1 .. 4 |-> ByteAnd(ip[i], mask[i], 8)]

\* The address and the prefix length written in the CIDR texts the model
\* passes; ok is FALSE for text net.ParseCIDR rejects.
CIDRParts(c) ==
    CASE c = "10.0.0.0/24" -> [ok |-> TRUE, ip |-> <<10, 0, 0, 0>>, bits |-> 24]
      [] c = "10.0.0.5/24" -> [ok |-> TRUE, ip |-> <<10, 0, 0, 5>>, bits |-> 24]
      [] c = "10.0.0.0/16" -> [ok |-> TRUE, ip |-> <<10, 0, 0, 0>>, bits |-> 16]
      [] c = "172.16.9.1/12" -> [ok |-> TRUE, ip |-> <<172, 16, 9, 1>>, bits |-> 12]
      [] OTHER -> [ok |-> FALSE, ip |-> NilIP, bits |-> 0]

\* net.ParseCIDR: the address as written, and the network it lies in (the
\* address masked, with the mask of the prefix length); or an error.
ParseCIDR(c) ==
    LET p == CIDRParts(c)
    IN IF p.ok
       THEN [err |-> FALSE, ip |-> p.ip,
             ipNet |-> [IP |-> MaskIP(p.ip, CIDRMask(p.bits)), Mask |-> CIDRMask(p.bits)]]
       ELSE [err |-> TRUE, ip |-> NilIP, ipNet |-> NilNet]

\* IP.String() of a 4-byte address; "<nil>" for the nil IP.
IPString(ip) ==
    IF ip = NilIP THEN "<nil>"
    ELSE ToString(ip[1]) \o "." \o ToString(ip[2]) \o "." \o ToString(ip[3])
         \o "." \o ToString(ip[4])

\* Two lower-case hex digits of a byte (IPMask.String).
HexDigit(d) ==
    CASE d = 10 -> "a" [] d = 11 -> "b" [] d = 12 -> "c" [] d = 13 -> "d"
      [] d = 14 -> "e" [] d = 15 -> "f" [] OTHER -> ToString(d)

HexByte(b) == HexDigit(b \div 16) \o HexDigit(b % 16)

MaskString(mask) == HexByte(mask[1]) \o HexByte(mask[2]) \o HexByte(mask[3]) \o HexByte(mask[4])

\* (*IPNet).String(): "<nil>" without an address, address/prefix for a mask
\* of leading ones, address/hexmask otherwise.
IPNetString(n) ==
    IF n.IP = NilIP \/ n.Mask = <<>> THEN "<nil>"
    ELSE LET l == simpleMaskLength(n.Mask)
         IN IF l = -1 THEN IPString(n.IP) \o "/" \o MaskString(n.Mask)
            ELSE IPString(n.IP) \o "/" \o ToString(l)

----------------------------------------------------------------------------
(* Rule (rule.go)                                                          *)

\* Rule{}: every field at its zero value.
ZeroRule ==
    [Action |-> "", AdressFamily |-> "", committed |-> FALSE, Direction |-> "",
     Destination |-> NilNet, DestPort |-> 0, Interface |-> "", Log |-> FALSE,
     Protocol |-> "", Source |-> NilNet, SourcePort |-> 0]

\* The switch of SetProtocol
ProtocolText(p) ==
    CASE p = ProtocolTcp -> "tcp"
      [] p = ProtocolUdp -> "udp"
      [] p = ProtocolIcmp -> "icmp"
      [] p = ProtocolIcmpv6 -> "icmp6"
      [] p = ProtocolUnknown -> ""
      [] OTHER -> ""

\* The switch of SetAction
ActionText(ac) ==
    CASE ac = ActionPass -> "pass"
      [] ac = ActionBlock -> "block"
      [] ac = ActionUnknown -> ""
      [] OTHER -> "block"

\* The switch of SetAddrFamily
AddrFamText(f) ==
    CASE f = AdressFamilyInet -> "inet"
      [] f = AdressFamilyInetv6 -> "inet6"
      [] OTHER -> ""

\* The switch of SetDirection
DirectionText(d) ==
    CASE d = DirectionIn -> "in"
      [] d = DirectionOut -> "out"
      [] d = DirectionUnknown -> ""
      [] OTHER -> ""

\* The Rule after each setter, and the error a CIDR setter returns.
RuleSetSourceIP(a, i, m) ==
    IF ~a.committed THEN [a EXCEPT !.Source = parseIP(i, m)] ELSE a

\* Mutant: SetSourceCIDR that parses before it looks at the commit flag.
RuleSetSourceCIDR_ParsesFirst(a, c) ==
    LET p == ParseCIDR(c)
    IN IF p.err THEN [rule |-> a, err |-> TRUE]
       ELSE IF ~a.committed THEN [rule |-> [a EXCEPT !.Source = p.ipNet], err |-> FALSE]
       ELSE [rule |-> a, err |-> FALSE]

RuleSetSourceCIDR(a, c) ==
    IF ~a.committed
    THEN LET p == ParseCIDR(c)
         IN IF p.err THEN [rule |-> a, err |-> TRUE]
            ELSE [rule |-> [a EXCEPT !.Source = p.ipNet], err |-> FALSE]
    ELSE [rule |-> a, err |-> FALSE]

RuleSetDestinationIP(a, i, m) ==
    IF ~a.committed THEN [a EXCEPT !.Destination = parseIP(i, m)] ELSE a

\* Mutant: SetDestinationCIDR of the earliest revision, which assigns the
\* network to Source.
RuleSetDestinationCIDR_IntoSource(a, c) ==
    IF ~a.committed
    THEN LET p == ParseCIDR(c)
         IN IF p.err THEN [rule |-> a, err |-> TRUE]
            ELSE [rule |-> [a EXCEPT !.Source = p.ipNet], err |-> FALSE]
    ELSE [rule |-> a, err |-> FALSE]

RuleSetDestinationCIDR(a, c) ==
    IF ~a.committed
    THEN LET p == ParseCIDR(c)
         IN IF p.err THEN [rule |-> a, err |-> TRUE]
            ELSE [rule |-> [a EXCEPT !.Destination = p.ipNet], err |-> FALSE]
    ELSE [rule |-> a, err |-> FALSE]

RuleSetSourcePort(a, p) ==
    IF ~a.committed THEN [a EXCEPT !.SourcePort = p] ELSE a

RuleSetDestinationPort(a, p) ==
    IF ~a.committed THEN [a EXCEPT !.DestPort = p] ELSE a

RuleSetInterface(a, i) ==
    IF ~a.committed THEN [a EXCEPT !.Interface = i] ELSE a

RuleSetProtocol(a, p) ==
    IF ~a.committed THEN [a EXCEPT !.Protocol = ProtocolText(p)] ELSE a

RuleSetAction(a, ac) ==
    IF ~a.committed THEN [a EXCEPT !.Action = ActionText(ac)] ELSE a

RuleSetAddrFamily(a, f) ==
    IF ~a.committed THEN [a EXCEPT !.AdressFamily = AddrFamText(f)] ELSE a

RuleSetDirection(a, d) ==
    IF ~a.committed THEN [a EXCEPT !.Direction = DirectionText(d)] ELSE a

\* SetLogging assigns without looking at the commit flag.
RuleSetLogging(a) == [a EXCEPT !.Log = TRUE]

RuleCommit(a) == [a EXCEPT !.committed = TRUE]

\* Mutant: String() that renders the address family by its own text.
RuleString_FamilyText(a) ==
    LET s1 == IF a.Action # "" THEN a.Action ELSE ""
        s2 == IF a.Direction # "" THEN s1 \o " " \o a.Direction ELSE s1
        s3 == IF a.Log THEN s2 \o " log" ELSE s2
        s4 == IF a.Interface # "" THEN s3 \o " on " \o a.Interface ELSE s3
        s5 == IF a.AdressFamily # "" THEN s4 \o " " \o a.AdressFamily ELSE s4
        s6 == IF a.Protocol # "" THEN s5 \o " proto " \o a.Protocol ELSE s5
        s7 == IF a.Source # NilNet
              THEN s6 \o " from " \o IPNetString(a.Source)
              ELSE s6 \o " from any"
        s8 == IF a.SourcePort > 0 THEN s7 \o " port " \o ToString(a.SourcePort) ELSE s7
        s9 == IF a.Destination # NilNet
              THEN s8 \o " to " \o IPNetString(a.Destination)
              ELSE s8 \o " to any"
        s10 == IF a.DestPort > 0 THEN s9 \o " port " \o ToString(a.DestPort) ELSE s9
    IN s10

\* Rule.String(): the Sprintf chain, clause by clause.
RuleString(a) ==
    LET s1 == IF a.Action # "" THEN a.Action ELSE ""
        s2 == IF a.Direction # "" THEN s1 \o " " \o a.Direction ELSE s1
        s3 == IF a.Log THEN s2 \o " log" ELSE s2
        s4 == IF a.Interface # "" THEN s3 \o " on " \o a.Interface ELSE s3
        s5 == IF a.AdressFamily # "" THEN s4 \o " on " \o a.Interface ELSE s4
        s6 == IF a.Protocol # "" THEN s5 \o " proto " \o a.Protocol ELSE s5
        s7 == IF a.Source # NilNet
              THEN s6 \o " from " \o IPNetString(a.Source)
              ELSE s6 \o " from any"
        s8 == IF a.SourcePort > 0 THEN s7 \o " port " \o ToString(a.SourcePort) ELSE s7
        s9 == IF a.Destination # NilNet
              THEN s8 \o " to " \o IPNetString(a.Destination)
              ELSE s8 \o " to any"
        s10 == IF a.DestPort > 0 THEN s9 \o " port " \o ToString(a.DestPort) ELSE s9
    IN s10

\* Mutant: NewRule that returns Rule{} as it is.
NewRuleValue_Zero == ZeroRule

\* Anchor.NewRule: Rule{} with SetAction(ActionBlock)
NewRuleValue == RuleSetAction(ZeroRule, ActionBlock)

----------------------------------------------------------------------------
(* What an operation leaves in op / arg / ret                              *)

NoValue == "-"      \* the operation returns nothing
Nil == "nil"        \* a nil error
NoArg == <<>>

\* The arguments the model passes to the Rule setters.
IPArgs == {<<"10.0.0.1", <<>>>>, <<"not-an-ip", <<"255.255.255.0">>>>}
CIDRArgs == {"10.0.0.5/24", "bogus"}
PortArgs == {0, 22}
InterfaceArgs == {"", "em0"}

\* The message of the *net.ParseError of net.ParseCIDR
CIDRError(c) == "invalid CIDR address: " \o c

InitPrev == [op |-> "none", ret |-> NoValue, calls |-> <<>>]

InitHist == [added |-> <<>>, sent |-> -1, flushed |-> FALSE]

CommitOps == {"Anchor.Commit", "CommitAnchor"}

\* The history after the operation o with argument a: the operation before
\* it (op) is by now an earlier one.
HistAfter(o, a) ==
    IF o = "NewAnchor" THEN InitHist
    ELSE [added |-> IF o = "AddRule" /\ a.committed
                    THEN Append(hist.added, a) ELSE hist.added,
          sent |-> IF op \in CommitOps THEN Len(hist.added) ELSE hist.sent,
          flushed |-> hist.flushed \/ op = "FlushAnchor"]

Init ==
    /\ rule = NewRuleValue
    /\ anchor = [Name |-> "testanchor", RuleSet |-> <<>>]
    /\ pfRunning = FALSE
    /\ op = "NewRule"
    /\ arg = NoArg
    /\ ret = NoValue
    /\ calls = <<>>
    /\ prev = InitPrev
    /\ hist = InitHist

\* Mutant: a RuleSet that holds the caller's Rule itself, not a copy: the
\* Rule added last follows what the caller does to it.
Stored_Shared(rules, before, after) ==
    IF Len(rules) > 0 /\ rules[Len(rules)] = before
    THEN [rules EXCEPT ![Len(rules)] = after]
    ELSE rules

\* What a RuleSet holds after a call took the caller's Rule from before to
\* after: Rules is a []Rule and AddRule takes its Rule by value, so the
\* RuleSet holds copies, which the call does not reach.
Stored(rules, before, after) == rules

\* The end of a call on the caller's Rule: what it leaves in op, arg and ret.
\* Such a call touches nothing but the Rule.
RuleDone(o, a, rt) ==
    /\ op' = o
    /\ arg' = a
    /\ ret' = rt
    /\ calls' = <<>>
    /\ hist' = HistAfter(o, a)
    /\ anchor' = [anchor EXCEPT !.RuleSet = Stored(anchor.RuleSet, rule, rule')]
    /\ UNCHANGED <<pfRunning, prev>>

NewRule ==
    /\ rule' = NewRuleValue
    /\ RuleDone("NewRule", NoArg, NoValue)

SetSourceIP ==
    \E x \in IPArgs :
        /\ rule' = RuleSetSourceIP(rule, x[1], x[2])
        /\ RuleDone("SetSourceIP", x, NoValue)

SetSourceCIDR ==
    \E c \in CIDRArgs :
        /\ rule' = RuleSetSourceCIDR(rule, c).rule
        /\ RuleDone("SetSourceCIDR", c,
                    IF RuleSetSourceCIDR(rule, c).err THEN CIDRError(c) ELSE Nil)

SetDestinationIP ==
    \E x \in IPArgs :
        /\ rule' = RuleSetDestinationIP(rule, x[1], x[2])
        /\ RuleDone("SetDestinationIP", x, NoValue)

SetDestinationCIDR ==
    \E c \in CIDRArgs :
        /\ rule' = RuleSetDestinationCIDR(rule, c).rule
        /\ RuleDone("SetDestinationCIDR", c,
                    IF RuleSetDestinationCIDR(rule, c).err THEN CIDRError(c) ELSE Nil)

SetSourcePort ==
    \E p \in PortArgs :
        /\ rule' = RuleSetSourcePort(rule, p)
        /\ RuleDone("SetSourcePort", p, NoValue)

SetDestinationPort ==
    \E p \in PortArgs :
        /\ rule' = RuleSetDestinationPort(rule, p)
        /\ RuleDone("SetDestinationPort", p, NoValue)

SetInterface ==
    \E i \in InterfaceArgs :
        /\ rule' = RuleSetInterface(rule, i)
        /\ RuleDone("SetInterface", i, NoValue)

SetProtocol ==
    \E p \in ProtocolInputs :
        /\ rule' = RuleSetProtocol(rule, p)
        /\ RuleDone("SetProtocol", p, NoValue)

SetAction ==
    \E ac \in ActionInputs :
        /\ rule' = RuleSetAction(rule, ac)
        /\ RuleDone("SetAction", ac, NoValue)

SetAddrFamily ==
    \E f \in AddrFamInputs :
        /\ rule' = RuleSetAddrFamily(rule, f)
        /\ RuleDone("SetAddrFamily", f, NoValue)

SetDirection ==
    \E d \in DirectionInputs :
        /\ rule' = RuleSetDirection(rule, d)
        /\ RuleDone("SetDirection", d, NoValue)

SetLogging ==
    /\ rule' = RuleSetLogging(rule)
    /\ RuleDone("SetLogging", NoArg, NoValue)

Commit ==
    /\ rule' = RuleCommit(rule)
    /\ RuleDone("Commit", NoArg, NoValue)

\* Rule.String() called on the caller's Rule; the Rule is only read.
String ==
    /\ rule' = rule
    /\ RuleDone("String", NoArg, RuleString(rule))

\* The life of one Rule, clause fields: the enum setters, the interface, the
\* destination port, logging and Commit, in any order.
NextRule ==
    \/ NewRule
    \/ SetProtocol
    \/ SetAction
    \/ SetAddrFamily
    \/ SetDirection
    \/ SetInterface
    \/ SetDestinationPort
    \/ SetLogging
    \/ Commit

SpecRule == Init /\ [][NextRule]_vars

\* The life of one Rule, endpoint fields: the address and port setters, with
\* the interface, logging and Commit, in any order.
NextEndpoint ==
    \/ NewRule
    \/ SetSourceIP
    \/ SetSourceCIDR
    \/ SetDestinationIP
    \/ SetDestinationCIDR
    \/ SetSourcePort
    \/ SetDestinationPort
    \/ SetInterface
    \/ SetLogging
    \/ Commit

SpecEndpoint == Init /\ [][NextEndpoint]_vars

\* Every Rule the setters can build: each field ranges over the values its
\* setter can leave in it with the arguments above.
RuleValues ==
    [Action : {ActionText(ac) : ac \in ActionInputs},
     AdressFamily : {AddrFamText(f) : f \in AddrFamInputs},
     committed : BOOLEAN,
     Direction : {DirectionText(d) : d \in DirectionInputs},
     Destination : {NilNet} \cup {parseIP(x[1], x[2]) : x \in IPArgs}
                     \cup {ParseCIDR(c).ipNet : c \in CIDRArgs},
     DestPort : PortArgs,
     Interface : InterfaceArgs,
     Log : BOOLEAN,
     Protocol : {ProtocolText(p) : p \in ProtocolInputs},
     Source : {NilNet} \cup {parseIP(x[1], x[2]) : x \in IPArgs}
                \cup {ParseCIDR(c).ipNet : c \in CIDRArgs},
     SourcePort : PortArgs]

InitString ==
    /\ rule \in RuleValues
    /\ anchor = [Name |-> "testanchor", RuleSet |-> <<>>]
    /\ pfRunning = FALSE
    /\ op = "none"
    /\ arg = NoArg
    /\ ret = NoValue
    /\ calls = <<>>
    /\ prev = InitPrev
    /\ hist = InitHist

\* Rule.String() over every Rule.
SpecString == InitString /\ [][String]_vars

----------------------------------------------------------------------------
(* The executor (pf.go: execPfCtl, execPfCtlStdin)                         *)
(*                                                                         *)
(* One call spawns one process.  What the process does is the environment's*)
(* answer resp = [kind, lines, stderr]:                                    *)
(*   "ok"      it exits with status 0, having printed lines                *)
(*   "start"   execCmd.Start() fails (no such file, no permission)         *)
(*   "scan"    the scanner of standard output fails (a line too long)      *)
(*   "exit"    it exits with a non-zero status, having written stderr      *)
(*   "killed"  the 2 second context expires and it is killed               *)
(*   "write"   (with standard input only) it exits with a non-zero status, *)
(*             having written stderr, before the payload is written to its *)
(*             standard input: the write fails on the closed pipe          *)
(* A call is recorded with its arguments, its standard input and the       *)
(* answer's kind and printed lines.                                        *)

ExecKinds == {"ok", "start", "scan", "exit", "killed"}
StdinKinds == ExecKinds \cup {"write"}

NoStdin == "<no stdin>"

ErrStart == "fork/exec: permission denied"
ErrScan == "bufio.Scanner: token too long"
ErrWrite == "write |1: broken pipe"

\* err.Error() of execCmd.Wait()
WaitMsg(kind) == IF kind = "killed" THEN "signal: killed" ELSE "exit status 1"

\* fmt.Errorf("command execution failed: %s => %s", err.Error(), errBuf.String())
WrapErr(msg, stderr) == "command execution failed: " \o msg \o " => " \o stderr

\* The error the executor returns for an answer.
ExecErr(resp) ==
    CASE resp.kind = "ok" -> Nil
      [] resp.kind = "start" -> ErrStart
      [] resp.kind = "scan" -> ErrScan
      [] resp.kind = "write" -> ErrWrite
      [] OTHER -> WrapErr(WaitMsg(resp.kind), resp.stderr)

\* The lines the executor returns: none before the process runs or before
\* its output is read.
ExecLines(resp) == IF resp.kind \in {"start", "write"} THEN <<>> ELSE resp.lines

\* Mutant: an executor that does not put "-q" before the arguments.
execPfCtl_NoQuiet(a, resp) ==
    [call |-> [args |-> a, stdin |-> NoStdin, kind |-> resp.kind,
               printed |-> resp.lines],
     lines |-> ExecLines(resp),
     err |-> ExecErr(resp)]

\* execPfCtl(a...): "-q" and the arguments, no standard input.
execPfCtl(a, resp) ==
    [call |-> [args |-> <<"-q">> \o a, stdin |-> NoStdin, kind |-> resp.kind,
               printed |-> resp.lines],
     lines |-> ExecLines(resp),
     err |-> ExecErr(resp)]

\* execPfCtlStdin(si, a...): the same with si written to standard input.
execPfCtlStdin(si, a, resp) ==
    [call |-> [args |-> <<"-q">> \o a, stdin |-> si, kind |-> resp.kind,
               printed |-> resp.lines],
     lines |-> ExecLines(resp),
     err |-> ExecErr(resp)]

\* The answers of a command that prints nothing of interest.
Answer(k) ==
    [kind |-> k, lines |-> <<>>,
     stderr |-> CASE k = "exit" -> "pfctl: Syntax error"
                  [] k = "write" -> "pfctl: /dev/pf: Permission denied"
                  [] OTHER -> ""]

CmdResponses == {Answer(k) : k \in ExecKinds}
StdinResponses == {Answer(k) : k \in StdinKinds}

----------------------------------------------------------------------------
(* RuleSet and Anchor (ruleset.go, anchor.go)                              *)

MaxRules == 2

AnchorNames == {"testanchor", "blocklist"}

\* strings.Join(a, sep)
RECURSIVE Join(_, _)
Join(a, sep) ==
    IF Len(a) = 0 THEN ""
    ELSE IF Len(a) = 1 THEN a[1]
    ELSE a[1] \o sep \o Join(Tail(a), sep)

\* RuleSet.AddRule(r): append when r is committed.
RuleSetAddRule(rules, r) == IF r.committed THEN Append(rules, r) ELSE rules

\* Mutant: AddRule without the commit gate.
AnchorAddRule_Ungated(rules, r) == Append(rules, r)

\* Anchor.AddRule(r): hand r to the RuleSet when r is committed.
AnchorAddRule(rules, r) == IF r.committed THEN RuleSetAddRule(rules, r) ELSE rules

\* Mutant: RulesString that ends every rule, the last one too, with "\n".
RulesString_Terminated(rules) ==
    LET kept == SelectSeq(rules, LAMBDA r : r.committed)
        ruleArray == [i \in 1 .. Len(kept) |-> RuleString(kept[i]) \o "\n"]
    IN Join(ruleArray, "")

\* RuleSet.RulesString(): the texts of the committed rules, joined by "\n".
RulesString(rules) ==
    LET kept == SelectSeq(rules, LAMBDA r : r.committed)
        ruleArray == [i \in 1 .. Len(kept) |-> RuleString(kept[i])]
    IN Join(ruleArray, "\n")

\* Mutant: a Commit that sends the rule added last instead of the ruleset.
CommitPayload_LastOnly(rules) ==
    IF Len(rules) = 0 THEN "\n" ELSE RuleString(rules[Len(rules)]) \o "\n"

\* Mutant: a Commit that does not end the ruleset with a newline.
CommitPayload_NoNewline(rules) == RulesString(rules)

\* The byte buffer Commit pipes to pfctl.
CommitPayload(rules) == RulesString(rules) \o "\n"

\* The end of an operation on the Anchor or the Firewall: what it leaves in
\* op, arg, ret and calls.  The caller's Rule is not touched.
FwDone(o, a, rt, cs) ==
    /\ op' = o
    /\ arg' = a
    /\ ret' = rt
    /\ calls' = cs
    /\ hist' = HistAfter(o, a)
    /\ UNCHANGED rule

\* Firewall.NewAnchor(n): the name, and an empty RuleSet.
NewAnchor ==
    \E n \in AnchorNames :
        /\ anchor' = [Name |-> n, RuleSet |-> <<>>]
        /\ FwDone("NewAnchor", n, NoValue, <<>>)
        /\ UNCHANGED <<pfRunning, prev>>

\* Anchor.AddRule(rule): the Rule is passed by value.
AddRule ==
    /\ rule.committed => Len(anchor.RuleSet) < MaxRules
    /\ anchor' = [anchor EXCEPT !.RuleSet = AnchorAddRule(anchor.RuleSet, rule)]
    /\ FwDone("AddRule", rule, NoValue, <<>>)
    /\ UNCHANGED <<pfRunning, prev>>

\* Anchor.RulesString()
AnchorRulesString ==
    /\ FwDone("RulesString", NoArg, RulesString(anchor.RuleSet), <<>>)
    /\ UNCHANGED <<anchor, pfRunning, prev>>

\* The body shared by Anchor.Commit and Firewall.CommitAnchor.
CommitRun(resp) ==
    execPfCtlStdin(CommitPayload(anchor.RuleSet), <<"-a", anchor.Name, "-f", "-", "-v">>, resp)

\* Anchor.Commit()
AnchorCommit ==
    \E resp \in StdinResponses :
        LET run == CommitRun(resp)
        IN /\ FwDone("Anchor.Commit", NoArg, run.err, <<run.call>>)
           /\ UNCHANGED <<anchor, pfRunning, prev>>

\* Firewall.CommitAnchor(a)
CommitAnchor ==
    \E resp \in StdinResponses :
        LET run == CommitRun(resp)
        IN /\ FwDone("CommitAnchor", NoArg, run.err, <<run.call>>)
           /\ UNCHANGED <<anchor, pfRunning, prev>>

\* Firewall.FlushAnchor(a)
FlushAnchor ==
    \E resp \in CmdResponses :
        LET run == execPfCtl(<<"-a", anchor.Name, "-F", "rules">>, resp)
        IN /\ FwDone("FlushAnchor", NoArg, run.err, <<run.call>>)
           /\ UNCHANGED <<anchor, pfRunning, prev>>

\* The anchor pipeline: rules are built (they differ in logging), committed
\* and added; the anchor is serialised, committed and flushed, in any order.
Next ==
    \/ NewRule
    \/ SetLogging
    \/ Commit
    \/ NewAnchor
    \/ AddRule
    \/ AnchorRulesString
    \/ AnchorCommit
    \/ CommitAnchor
    \/ FlushAnchor

Spec == Init /\ [][Next]_vars

----------------------------------------------------------------------------
(* Firewall: Enabled, Enable, Disable (pf.go)                              *)

\* What pfctl -s Running prints for the packet filter's state.
StatusText(running) == IF running THEN "Enabled" ELSE "Disabled"

\* The answers to the status query: the status line alone, the status line
\* with a line after it, no line at all, or a failure.
StatusResponses(running) ==
    {[kind |-> "ok", lines |-> l, stderr |-> ""] :
        l \in {<<StatusText(running)>>, <<StatusText(running), "Debug: Urgent">>, <<>>}}
    \cup {Answer(k) : k \in ExecKinds \ {"ok"}}

\* Mutant: Enabled() that takes any output of a successful query for "Enabled".
EnabledOf_AnyOutput(run) ==
    IF run.err # Nil THEN "false"
    ELSE IF Len(run.lines) = 0 THEN "panic"
    ELSE "true"

\* What Enabled() does with the executor's result: "true", "false", or the
\* run-time panic of indexing an empty slice.
EnabledOf(run) ==
    IF run.err # Nil THEN "false"
    ELSE IF Len(run.lines) = 0 THEN "panic"
    ELSE IF run.lines[1] = "Enabled" THEN "true"
    ELSE "false"

StatusRun(resp) == execPfCtl(<<"-s", "Running">>, resp)

\* The packet filter after pfctl ran with flag: -e and -d take effect when
\* the process ends well.
RunningAfter(flag, resp) ==
    IF resp.kind # "ok" THEN pfRunning
    ELSE IF flag = "-e" THEN TRUE
    ELSE IF flag = "-d" THEN FALSE
    ELSE pfRunning

\* The end of a lifecycle operation: the record of the operation before it
\* moves to prev.
LifeDone(o, rt, cs) ==
    /\ FwDone(o, NoArg, rt, cs)
    /\ prev' = [op |-> op, ret |-> ret, calls |-> calls]
    /\ UNCHANGED anchor

\* Firewall.Enabled()
Enabled ==
    \E resp \in StatusResponses(pfRunning) :
        /\ pfRunning' = pfRunning
        /\ LifeDone("Enabled", EnabledOf(StatusRun(resp)), <<StatusRun(resp).call>>)

\* What Enable (target "true", flag -e) and Disable (target "false", flag -d)
\* return and run after Enabled() answered en on the run status: nothing more
\* when en is the target (or Enabled() panicked), else one pfctl run with the
\* flag, whose error is returned.
ToggleResult(en, target, flag, status, resp2) ==
    IF en = "panic" THEN [ret |-> "panic", calls |-> <<status.call>>, ran |-> FALSE]
    ELSE IF en = target THEN [ret |-> Nil, calls |-> <<status.call>>, ran |-> FALSE]
    ELSE LET run2 == execPfCtl(<<flag>>, resp2)
         IN [ret |-> run2.err, calls |-> <<status.call, run2.call>>, ran |-> TRUE]

\* Firewall.Enable()
Enable ==
    \E resp \in StatusResponses(pfRunning), resp2 \in CmdResponses :
        LET status == StatusRun(resp)
            res == ToggleResult(EnabledOf(status), "true", "-e", status, resp2)
        IN /\ pfRunning' = IF res.ran THEN RunningAfter("-e", resp2) ELSE pfRunning
           /\ LifeDone("Enable", res.ret, res.calls)

\* Firewall.Disable()
Disable ==
    \E resp \in StatusResponses(pfRunning), resp2 \in CmdResponses :
        LET status == StatusRun(resp)
            res == ToggleResult(EnabledOf(status), "false", "-d", status, resp2)
        IN /\ pfRunning' = IF res.ran THEN RunningAfter("-d", resp2) ELSE pfRunning
           /\ LifeDone("Disable", res.ret, res.calls)

NextFw ==
    \/ Enabled
    \/ Enable
    \/ Disable

SpecFw == Init /\ [][NextFw]_vars

----------------------------------------------------------------------------
(* Tables (table.go)                                                       *)

MaxBatch == 2

TableNames == {"testtable", "blocklist"}
IPEntries == {"10.0.0.1", "not-an-ip"}
CIDREntries == {"10.0.0.0/24", "bogus"}

\* The answers to a table command, and the one recorded for an entry that
\* is never run.
TableResponses == {Answer(k) : k \in {"ok", "exit", "killed"}}
NotRun == Answer("ok")

\* net.ParseIP(entry), and the text handed to pfctl: ipAddr.String()
ParseIPEntry(e) ==
    LET ipAddr == ParseIP(e)
    IN [ok |-> ipAddr # NilIP, addr |-> IPString(ipAddr)]

\* net.ParseCIDR(entry), of which the address is kept and the network
\* dropped, and the text handed to pfctl: ipAddr.String()
ParseCIDREntry(e) ==
    LET p == ParseCIDR(e)
    IN [ok |-> ~p.err, addr |-> IPString(p.ip)]

\* Mutant: a loop that gives up at the first run of pfctl that fails.
TableRuns_StopOnError(t, verb, parsed, rs) ==
    LET idx == SelectSeq([i \in 1 .. Len(parsed) |-> i], LAMBDA i : parsed[i].ok)
        all == [k \in 1 .. Len(idx) |->
                   execPfCtl(<<"-t", t, "-T", verb, parsed[idx[k]].addr>>, rs[idx[k]])]
        bad == {k \in 1 .. Len(all) : all[k].err # Nil}
    IN IF bad = {} THEN all
       ELSE SubSeq(all, 1, CHOOSE k \in bad : \A j \in bad : k <= j)

\* The loop of a table operation over the parsed entries: an entry that did
\* not parse is skipped, every other is one run of pfctl.
TableRuns(t, verb, parsed, rs) ==
    LET idx == SelectSeq([i \in 1 .. Len(parsed) |-> i], LAMBDA i : parsed[i].ok)
    IN [k \in 1 .. Len(idx) |->
            execPfCtl(<<"-t", t, "-T", verb, parsed[idx[k]].addr>>, rs[idx[k]])]

\* Mutant: an aggregate error that keeps the first failed run's message only.
TableErr_FirstOnly(runs, what) ==
    LET failed == SelectSeq(runs, LAMBDA r : r.err # Nil)
    IN IF Len(failed) > 0
       THEN "One or more errors occurred " \o what \o " table: " \o failed[1].err
       ELSE Nil

\* errArray, and the error returned: nil, or the messages joined.
TableErr(runs, what) ==
    LET failed == SelectSeq(runs, LAMBDA r : r.err # Nil)
        errArray == [i \in 1 .. Len(failed) |-> failed[i].err]
    IN IF Len(errArray) > 0
       THEN "One or more errors occurred " \o what \o " table: " \o Join(errArray, ", ")
       ELSE Nil

Batches(S) == UNION {[1 .. n -> S] : n \in 0 .. MaxBatch}

\* The answers of a batch: one per entry that parses.
BatchAnswers(parsed) ==
    {rs \in [1 .. Len(parsed) -> TableResponses] :
        \A i \in 1 .. Len(parsed) : ~parsed[i].ok => rs[i] = NotRun}

CallsOf(runs) == [k \in 1 .. Len(runs) |-> runs[k].call]

ParsedCIDR(e) == [i \in 1 .. Len(e) |-> ParseCIDREntry(e[i])]
ParsedIP(e) == [i \in 1 .. Len(e) |-> ParseIPEntry(e[i])]

AddToTableCIDR ==
    \E t \in TableNames, e \in Batches(CIDREntries) :
        \E rs \in BatchAnswers(ParsedCIDR(e)) :
            LET runs == TableRuns(t, "add", ParsedCIDR(e), rs)
            IN /\ FwDone("AddToTableCIDR", <<t, e>>,
                         TableErr(runs, "adding IP(s) to"), CallsOf(runs))
               /\ UNCHANGED <<anchor, pfRunning, prev>>

AddToTableIP ==
    \E t \in TableNames, e \in Batches(IPEntries) :
        \E rs \in BatchAnswers(ParsedIP(e)) :
            LET runs == TableRuns(t, "add", ParsedIP(e), rs)
            IN /\ FwDone("AddToTableIP", <<t, e>>,
                         TableErr(runs, "adding IP(s) to"), CallsOf(runs))
               /\ UNCHANGED <<anchor, pfRunning, prev>>

RemoveFromTableCIDR ==
    \E t \in TableNames, e \in Batches(CIDREntries) :
        \E rs \in BatchAnswers(ParsedCIDR(e)) :
            LET runs == TableRuns(t, "delete", ParsedCIDR(e), rs)
            IN /\ FwDone("RemoveFromTableCIDR", <<t, e>>,
                         TableErr(runs, "removing IP(s) from"), CallsOf(runs))
               /\ UNCHANGED <<anchor, pfRunning, prev>>

RemoveFromTableIP ==
    \E t \in TableNames, e \in Batches(IPEntries) :
        \E rs \in BatchAnswers(ParsedIP(e)) :
            LET runs == TableRuns(t, "delete", ParsedIP(e), rs)
            IN /\ FwDone("RemoveFromTableIP", <<t, e>>,
                         TableErr(runs, "removing IP(s) from"), CallsOf(runs))
               /\ UNCHANGED <<anchor, pfRunning, prev>>

NextTable ==
    \/ AddToTableCIDR
    \/ AddToTableIP
    \/ RemoveFromTableCIDR
    \/ RemoveFromTableIP

SpecTable == Init /\ [][NextTable]_vars

----------------------------------------------------------------------------
(* Construction (pf.go: NewFirewall, NewFirewallCustom, newFwObj)          *)
(*                                                                         *)
(* What fileperm finds at a path is the environment's: the path is missing *)
(* (fileperm.New fails) or it has the user's permission bits given as      *)
(* "rwx" text.  The modes found are recorded with the arguments.           *)

DefaultControlCmdPath == "/sbin/pfctl"
DefaultIoDev == "/dev/pf"

ControlCmdPaths == {"", DefaultControlCmdPath, "/usr/local/sbin/pfctl"}
IoDevs == {"", DefaultIoDev, "/dev/pf0"}

Missing == "missing"
CtlModes == {Missing, "rw-", "r-x"}
DevModes == {Missing, "r--", "-w-", "rw-"}

\* Firewall{}
ZeroFirewall == [ControlCmdPath |-> "", IoDev |-> ""]

\* fileperm: PermUser.UserExecutable(), PermUser.UserWriteReadable()
UserExecutable(mode) == mode \in {"r-x", "--x", "rwx", "-wx"}
UserWriteReadable(mode) == mode \in {"rw-", "rwx"}

\* The error of fileperm.New for a path that cannot be examined
StatError(path) == "stat " \o path \o ": no such file or directory"

\* newFwObj(c, i), the files being found with the modes ctlMode and devMode:
\* the Firewall and the error returned.
newFwObj(c, i, ctlMode, devMode) ==
    LET fwObj == [ControlCmdPath |-> c, IoDev |-> i]
    IN IF c = "" THEN [fw |-> ZeroFirewall, err |-> "no pfctl path given"]
       ELSE IF i = "" THEN [fw |-> ZeroFirewall, err |-> "no iodev path given"]
       ELSE IF ctlMode = Missing THEN [fw |-> fwObj, err |-> StatError(c)]
       ELSE IF ~UserExecutable(ctlMode)
            THEN [fw |-> fwObj, err |-> c \o " is not executable"]
       ELSE IF devMode = Missing THEN [fw |-> fwObj, err |-> StatError(i)]
       ELSE IF ~UserWriteReadable(devMode)
            THEN [fw |-> fwObj, err |-> i \o " is not read-/writable"]
       ELSE [fw |-> fwObj, err |-> Nil]

\* NewFirewall()
NewFirewall ==
    \E ctlMode \in CtlModes, devMode \in DevModes :
        /\ FwDone("NewFirewall", <<DefaultControlCmdPath, DefaultIoDev, ctlMode, devMode>>,
                  newFwObj(DefaultControlCmdPath, DefaultIoDev, ctlMode, devMode), <<>>)
        /\ UNCHANGED <<anchor, pfRunning, prev>>

\* NewFirewallCustom(c, i)
NewFirewallCustom ==
    \E c \in ControlCmdPaths, i \in IoDevs, ctlMode \in CtlModes, devMode \in DevModes :
        /\ FwDone("NewFirewallCustom", <<c, i, ctlMode, devMode>>,
                  newFwObj(c, i, ctlMode, devMode), <<>>)
        /\ UNCHANGED <<anchor, pfRunning, prev>>

NextNewFw ==
    \/ NewFirewall
    \/ NewFirewallCustom

SpecNewFw == Init /\ [][NextNewFw]_vars

----------------------------------------------------------------------------
(* Every operation that runs pfctl                                         *)
(*                                                                         *)
(* As the tests of pf_test.go do, a caller stays with one group of         *)
(* operations from the start: the lifecycle, an anchor, or the tables.     *)
(* No operation of one group reads what one of another group changes.      *)

LifecycleOps == {"Enabled", "Enable", "Disable"}
AnchorOps == {"NewAnchor", "Anchor.Commit", "CommitAnchor", "FlushAnchor"}
TableCalls == {"AddToTableCIDR", "AddToTableIP", "RemoveFromTableCIDR", "RemoveFromTableIP"}

\* Whether the caller may go on with an operation of the group G.
Within(G) == op = "NewRule" \/ op \in G

NextExec ==
    \/ Within(AnchorOps) /\ NewAnchor
    \/ Within(AnchorOps) /\ AnchorCommit
    \/ Within(AnchorOps) /\ CommitAnchor
    \/ Within(AnchorOps) /\ FlushAnchor
    \/ Within(LifecycleOps) /\ Enabled
    \/ Within(LifecycleOps) /\ Enable
    \/ Within(LifecycleOps) /\ Disable
    \/ Within(TableCalls) /\ AddToTableCIDR
    \/ Within(TableCalls) /\ AddToTableIP
    \/ Within(TableCalls) /\ RemoveFromTableCIDR
    \/ Within(TableCalls) /\ RemoveFromTableIP

SpecExec == Init /\ [][NextExec]_vars

----------------------------------------------------------------------------
(* Properties                                                              *)

Setters ==
    {"SetSourceIP", "SetSourceCIDR", "SetDestinationIP", "SetDestinationCIDR",
     "SetSourcePort", "SetDestinationPort", "SetInterface", "SetProtocol",
     "SetAction", "SetAddrFamily", "SetDirection", "SetLogging"}

\* The texts of rules, each on its own line: built from the left, a "\n"
\* before every rule but the first.
RECURSIVE LinesOf(_)
LinesOf(rules) ==
    IF Len(rules) = 0 THEN ""
    ELSE IF Len(rules) = 1 THEN RuleString(rules[1])
    ELSE LinesOf(SubSeq(rules, 1, Len(rules) - 1)) \o "\n" \o RuleString(rules[Len(rules)])

\* C1: once a Rule is committed, a call of any setter leaves every field of
\* the Rule, its committed flag and its text unchanged.
C1_CommittedRuleIsFrozen ==
    [][(rule.committed /\ op' \in Setters)
          => (rule' = rule /\ RuleString(rule') = RuleString(rule))]_vars

\* C2: AddRule of a committed Rule appends it as the last element (the length
\* grows by one), AddRule of an uncommitted Rule changes nothing, neither
\* reports anything; every rule held is committed.
C2_AddRuleAppendsCommittedOnly ==
    /\ [][op' = "AddRule" =>
            /\ ret' = NoValue
            /\ IF arg'.committed
               THEN /\ Len(anchor'.RuleSet) = Len(anchor.RuleSet) + 1
                    /\ anchor'.RuleSet[Len(anchor'.RuleSet)] = arg'
                    /\ SubSeq(anchor'.RuleSet, 1, Len(anchor.RuleSet)) = anchor.RuleSet
                    /\ anchor'.Name = anchor.Name
               ELSE anchor' = anchor]_vars
    /\ [](\A i \in 1 .. Len(anchor.RuleSet) : anchor.RuleSet[i].committed)
    /\ [](anchor.RuleSet = hist.added)

C2_Witness ==
    /\ op = "AddRule"
    /\ arg.committed
    /\ Len(anchor.RuleSet) >= 2
    /\ anchor.RuleSet[1] # anchor.RuleSet[2]

\* C3: Commit and Flush leave the RuleSet as it is, whatever pfctl answers;
\* the payload of every Commit is the text of all the committed rules added
\* so far, in the order they were added.
C3_CommitSendsAllRulesAdded ==
    /\ [][op' \in CommitOps \cup {"FlushAnchor"} => anchor' = anchor]_vars
    /\ [](op \in CommitOps =>
            /\ Len(calls) = 1
            /\ calls[1].stdin = LinesOf(hist.added) \o "\n")

\* A Commit of two rules, one of them sent by an earlier Commit already,
\* after a Flush, with pfctl failing.
C3_Witness ==
    /\ op \in CommitOps
    /\ Len(hist.added) = 2
    /\ hist.sent = 1
    /\ hist.flushed
    /\ calls[1].kind = "exit"

\* C4: Commit runs pfctl once, for the anchor's name, with RulesString() and
\* one newline on standard input; for the anchor of NewAnchor(n) with no rule
\* added the name is n and the payload is the newline alone.
C4_CommitPayload ==
    /\ [](op \in CommitOps =>
            /\ Len(calls) = 1
            /\ calls[1].stdin = RulesString(anchor.RuleSet) \o "\n"
            /\ calls[1].args[2] = "-a"
            /\ calls[1].args[3] = anchor.Name
            /\ (hist.added = <<>> => calls[1].stdin = "\n"))
    /\ [][op' = "NewAnchor" => anchor' = [Name |-> arg', RuleSet |-> <<>>]]_vars
    /\ [][op' # "NewAnchor" => anchor'.Name = anchor.Name]_vars

C4_Witness ==
    /\ op = "Anchor.Commit"
    /\ anchor.Name = "blocklist"
    /\ hist.added = <<>>
    /\ calls[1].stdin = "\n"

\* C5: RulesString() is the rules' texts in insertion order with one "\n"
\* between two of them and none before or after; "" for no rule.
C5_RulesStringJoins ==
    op = "RulesString" =>
        /\ ret = LinesOf(anchor.RuleSet)
        /\ (Len(anchor.RuleSet) = 0 => ret = "")
        /\ (Len(anchor.RuleSet) = 2 =>
              ret = RuleString(anchor.RuleSet[1]) \o "\n" \o RuleString(anchor.RuleSet[2]))

C5_Witness ==
    /\ op = "RulesString"
    /\ Len(anchor.RuleSet) = 2
    /\ ret = "block log from any to any\nblock from any to any"

\* The clauses of a rule's text as C6 lists them, each after the action led
\* by one space: present when its field is not zero, "from" and "to" always.
Clause(present, text) == IF present THEN " " \o text ELSE ""

EndpointText(n) == IF n = NilNet THEN "any" ELSE IPNetString(n)

ClauseText(r) ==
    r.Action
    \o Clause(r.Direction # "", r.Direction)
    \o Clause(r.Log, "log")
    \o Clause(r.Interface # "", "on " \o r.Interface)
    \o Clause(r.Protocol # "", "proto " \o r.Protocol)
    \o Clause(TRUE, "from " \o EndpointText(r.Source))
    \o Clause(r.SourcePort # 0, "port " \o ToString(r.SourcePort))
    \o Clause(TRUE, "to " \o EndpointText(r.Destination))
    \o Clause(r.DestPort # 0, "port " \o ToString(r.DestPort))

\* C6: for every combination of field values String() is the clauses action,
\* direction, log, on <interface>, proto <protocol>, from, to in this order,
\* each present exactly when its field is set, from and to always, with "any"
\* for an unset address and a port clause exactly for a nonzero port.
C6_StringIsTheClauses == op = "String" => ret = ClauseText(rule)

\* C7: on an uncommitted Rule SetAction leaves "pass" for ActionPass and
\* "block" for every other value, never the empty text; SetDirection,
\* SetAddrFamily and SetProtocol leave the text of a known value and the
\* empty text for every other.
C7_EnumSettersTotal ==
    ~rule.committed =>
        /\ op = "SetAction" =>
              /\ rule.Action = (IF arg = ActionPass THEN "pass" ELSE "block")
              /\ rule.Action # ""
        /\ op = "SetDirection" =>
              rule.Direction = (CASE arg = DirectionIn -> "in"
                                  [] arg = DirectionOut -> "out"
                                  [] OTHER -> "")
        /\ op = "SetAddrFamily" =>
              rule.AdressFamily = (CASE arg = AdressFamilyInet -> "inet"
                                     [] arg = AdressFamilyInetv6 -> "inet6"
                                     [] OTHER -> "")
        /\ op = "SetProtocol" =>
              rule.Protocol = (CASE arg = ProtocolTcp -> "tcp"
                                 [] arg = ProtocolUdp -> "udp"
                                 [] arg = ProtocolIcmp -> "icmp"
                                 [] arg = ProtocolIcmpv6 -> "icmp6"
                                 [] OTHER -> "")

\* The status query of a lifecycle operation succeeded and its first line
\* is exactly "Enabled".
ReportedEnabled(c) ==
    /\ c.kind = "ok"
    /\ Len(c.printed) >= 1
    /\ c.printed[1] = "Enabled"

\* C8: Enabled() is true exactly when the status query succeeds and its first
\* output line is "Enabled"; when the query fails it is false, and no error
\* is raised.
C8_EnabledIffFirstLine ==
    op = "Enabled" =>
        /\ Len(calls) = 1
        /\ calls[1].args = <<"-q", "-s", "Running">>
        /\ (ret = "true" <=> ReportedEnabled(calls[1]))
        /\ (calls[1].kind # "ok" => ret = "false")

C8_Witness ==
    /\ op = "Enabled"
    /\ ret = "true"
    /\ calls[1].printed = <<"Enabled", "Debug: Urgent">>
    /\ prev.op = "Enabled"
    /\ prev.ret = "false"
    /\ prev.calls[1].kind = "killed"

\* The number of runs of pfctl with the one flag among calls.
FlagRuns(cs, flag) == Cardinality({k \in 1 .. Len(cs) : cs[k].args = <<"-q", flag>>})

FlagOf(o) == IF o = "Enable" THEN "-e" ELSE "-d"

\* C9: Enable and Disable check the state first; in the target state they run
\* no command and return no error, else they run their command once and
\* return its error; two calls of the same in a row, the first successful,
\* run the command at most once; after a successful Disable, Enable fails
\* only for its own command (and likewise Disable after Enable).
C9_EnableDisableIdempotent ==
    op \in {"Enable", "Disable"} /\ ret # "panic" =>
        /\ IF ReportedEnabled(calls[1]) = (op = "Enable")
           THEN Len(calls) = 1 /\ ret = Nil
           ELSE /\ Len(calls) = 2
                /\ calls[2].args = <<"-q", FlagOf(op)>>
                /\ (ret = Nil <=> calls[2].kind = "ok")
        /\ (prev.op = op /\ prev.ret = Nil) =>
              FlagRuns(prev.calls, FlagOf(op)) + FlagRuns(calls, FlagOf(op)) <= 1
        /\ (prev.op \in {"Enable", "Disable"} /\ prev.op # op /\ prev.ret = Nil /\ ret # Nil) =>
              (Len(calls) = 2 /\ calls[2].kind # "ok")

TableOps == {"AddToTableCIDR", "AddToTableIP", "RemoveFromTableCIDR", "RemoveFromTableIP"}

\* The address pfctl is to be given for each entry that parses, entry by
\* entry from the left; o is the table operation.
RECURSIVE TargetsOf(_, _)
TargetsOf(o, e) ==
    IF Len(e) = 0 THEN <<>>
    ELSE LET p == IF o \in {"AddToTableIP", "RemoveFromTableIP"}
                  THEN ParseIPEntry(e[1]) ELSE ParseCIDREntry(e[1])
         IN (IF p.ok THEN <<p.addr>> ELSE <<>>) \o TargetsOf(o, Tail(e))

FailedMessages(cs) ==
    LET failed == SelectSeq(cs, LAMBDA c : c.kind # "ok")
    IN [k \in 1 .. Len(failed) |-> ExecErr(Answer(failed[k].kind))]

\* The fixed head of a table operation's aggregate error.
AggregateHead(o) ==
    IF o \in {"AddToTableCIDR", "AddToTableIP"}
    THEN "One or more errors occurred adding IP(s) to table: "
    ELSE "One or more errors occurred removing IP(s) from table: "

C12_ParseFailureIsAnError ==
    op \in TableOps =>
        (Len(TargetsOf(op, arg[2])) < Len(arg[2]) => ret # Nil)

\* The answers in which the process ends badly: a non-zero exit (before or
\* after the payload was written to it) or the kill at the 2 second bound.
ProcessFailed == {"exit", "killed", "write"}

\* C13: whenever the pfctl process of a call ends badly, the error the
\* executor hands back (which commit and flush return as it is) is the
\* wrapped one, holding the process error and the text of stderr; with and
\* without a payload on standard input.
C13_FailureEmbedsStderr ==
    op \in CommitOps \cup {"FlushAnchor"} =>
        \A k \in 1 .. Len(calls) :
            calls[k].kind \in ProcessFailed =>
                ret = WrapErr(WaitMsg(calls[k].kind), Answer(calls[k].kind).stderr)

Constructors == {"NewFirewall", "NewFirewallCustom"}

\* C14: a constructor returns without error only if both paths are
\* non-empty, the control command is executable and the device readable and
\* writable; in every other case it returns an error and a Firewall that
\* carries neither of the paths it was given.
C14_ConstructionValidates ==
    op \in Constructors =>
        /\ ret.err = Nil =>
              /\ arg[1] # "" /\ arg[2] # ""
              /\ UserExecutable(arg[3])
              /\ UserWriteReadable(arg[4])
              /\ ret.fw = [ControlCmdPath |-> arg[1], IoDev |-> arg[2]]
        /\ ret.err # Nil => ret.fw = ZeroFirewall

\* The arguments the operation o is to hand to its k-th run of pfctl, the
\* "-q" left out.
StatedArgs(o, k) ==
    CASE o \in {"Enabled", "Enable", "Disable"} /\ k = 1 -> <<"-s", "Running">>
      [] o = "Enable" /\ k = 2 -> <<"-e">>
      [] o = "Disable" /\ k = 2 -> <<"-d">>
      [] o \in CommitOps /\ k = 1 -> <<"-a", anchor.Name, "-f", "-", "-v">>
      [] o = "FlushAnchor" /\ k = 1 -> <<"-a", anchor.Name, "-F", "rules">>
      [] o \in {"AddToTableCIDR", "AddToTableIP"} ->
             <<"-t", arg[1], "-T", "add", TargetsOf(o, arg[2])[k]>>
      [] o \in {"RemoveFromTableCIDR", "RemoveFromTableIP"} ->
             <<"-t", arg[1], "-T", "delete", TargetsOf(o, arg[2])[k]>>
      [] OTHER -> <<"no such run">>

\* C15: every run of pfctl, by whichever operation, has "-q" as its first
\* argument and after it exactly the operation's arguments, in order.
C15_QuietThenArguments ==
    \A k \in 1 .. Len(calls) :
        /\ calls[k].args[1] = "-q"
        /\ Tail(calls[k].args) = StatedArgs(op, k)

\* Enable on a stopped packet filter, after a Disable: the status query and
\* then -e.
C15_Witness ==
    /\ op = "Enable"
    /\ Len(calls) = 2
    /\ calls[1].args = <<"-q", "-s", "Running">>
    /\ calls[2].args = <<"-q", "-e">>
    /\ prev.op = "Disable"

CIDRSetters == {"SetSourceCIDR", "SetDestinationCIDR"}

\* CIDR text that net.ParseCIDR rejects.
Malformed(c) == ParseCIDR(c).err

\* C16: a CIDR setter returns an error exactly when the Rule is not
\* committed and the text is malformed, and then changes no field; on a
\* committed Rule it returns no error whatever the text.
C16_CIDRSetterErrors ==
    [][op' \in CIDRSetters =>
          /\ (ret' # Nil) <=> (~rule.committed /\ Malformed(arg'))
          /\ ret' # Nil => rule' = rule
          /\ rule.committed => ret' = Nil]_vars

\* Malformed text given to SetSourceCIDR on an uncommitted Rule that has a
\* source already.
C16_Witness ==
    /\ op = "SetSourceCIDR"
    /\ arg = "bogus"
    /\ ret = "invalid CIDR address: bogus"
    /\ ~rule.committed
    /\ rule.Source # NilNet

\* A rule's text up to and with its "from" clause.
UpToFrom(r) ==
    r.Action
    \o Clause(r.Direction # "", r.Direction)
    \o Clause(r.Log, "log")
    \o Clause(r.Interface # "", "on " \o r.Interface)
    \o Clause(r.Protocol # "", "proto " \o r.Protocol)
    \o Clause(TRUE, "from " \o EndpointText(r.Source))
    \o Clause(r.SourcePort # 0, "port " \o ToString(r.SourcePort))

\* C17: on an uncommitted Rule SetDestinationCIDR with well-formed text sets
\* Destination to that network and leaves Source and every other field as
\* they were: the text keeps its "from" clause and has the network in "to".
C17_DestinationCIDRFrame ==
    [][(op' = "SetDestinationCIDR" /\ ~rule.committed /\ ~Malformed(arg')) =>
          /\ rule' = [rule EXCEPT !.Destination = ParseCIDR(arg').ipNet]
          /\ RuleString(rule') =
                 UpToFrom(rule) \o " to " \o IPNetString(ParseCIDR(arg').ipNet)
                 \o Clause(rule.DestPort # 0, "port " \o ToString(rule.DestPort))]_vars

\* A destination network given to a Rule whose source is a host.
C17_Witness ==
    /\ op = "SetDestinationCIDR"
    /\ arg = "10.0.0.5/24"
    /\ ret = Nil
    /\ rule.Source = parseIP("10.0.0.1", <<>>)
    /\ RuleString(rule) = "block from 10.0.0.1/32 to 10.0.0.0/24"

\* C18: when the address family is set, the text has a second clause
\* "on <interface value>" right after the interface clause and before the
\* protocol clause, and no family text anywhere; when it is not set there is
\* no such clause.
C18_FamilyRepeatsInterface ==
    op = "String" =>
        ret = rule.Action
              \o Clause(rule.Direction # "", rule.Direction)
              \o Clause(rule.Log, "log")
              \o Clause(rule.Interface # "", "on " \o rule.Interface)
              \o (IF rule.AdressFamily # "" THEN " on " \o rule.Interface ELSE "")
              \o Clause(rule.Protocol # "", "proto " \o rule.Protocol)
              \o Clause(TRUE, "from " \o EndpointText(rule.Source))
              \o Clause(rule.SourcePort # 0, "port " \o ToString(rule.SourcePort))
              \o Clause(TRUE, "to " \o EndpointText(rule.Destination))
              \o Clause(rule.DestPort # 0, "port " \o ToString(rule.DestPort))

\* A rule for inet6 on em0 with a protocol.
C18_Witness ==
    /\ op = "String"
    /\ rule.AdressFamily = "inet6"
    /\ ret = "pass in on em0 on em0 proto tcp from any to any"

\* C19: the Rule NewRule returns is not committed, has the action "block"
\* and every other field at its zero value; its text is "block from any to
\* any"; AddRule does not take it as it is, and takes it once committed.
C19_NewRuleBlocksUncommitted ==
    op = "NewRule" =>
        /\ rule = [Action |-> "block", AdressFamily |-> "", committed |-> FALSE,
                   Direction |-> "", Destination |-> NilNet, DestPort |-> 0,
                   Interface |-> "", Log |-> FALSE, Protocol |-> "",
                   Source |-> NilNet, SourcePort |-> 0]
        /\ RuleString(rule) = "block from any to any"
        /\ AnchorAddRule(anchor.RuleSet, rule) = anchor.RuleSet
        /\ AnchorAddRule(anchor.RuleSet, RuleCommit(rule))
              = Append(anchor.RuleSet, RuleCommit(rule))

\* NewRule called again after a logging rule was committed and added.
C19_Witness ==
    /\ op = "NewRule"
    /\ Len(anchor.RuleSet) = 1
    /\ anchor.RuleSet[1].Log
    /\ ~rule.committed
    /\ ~rule.Log

\* C20: Enabled returns a boolean whatever the status query does, and false
\* when the query ends well without any output line.
C20_EnabledAlwaysReturns ==
    op = "Enabled" =>
        /\ ret \in {"true", "false"}
        /\ (calls[1].kind = "ok" /\ calls[1].printed = <<>>) => ret = "false"

\* C21: when Disable returns nil the packet filter is not running: it was
\* found stopped, or -d was run and ended well.  Disable never returns nil
\* without a run of -d while the packet filter runs, whatever the status
\* query did.
C21_DisableNilMeansStopped ==
    (op = "Disable" /\ ret = Nil) => ~pfRunning

CIDRTableOps == {"AddToTableCIDR", "RemoveFromTableCIDR"}

\* The entries of a batch that are well-formed CIDR text, in order.
WellFormed(e) == SelectSeq(e, LAMBDA c : ~Malformed(c))

\* C22: for every well-formed entry of AddToTableCIDR / RemoveFromTableCIDR
\* the address handed to pfctl is the entry's network with its prefix
\* length, so that two entries with one address and two prefix lengths are
\* handed over as two different arguments.
C22_CIDREntryKeepsPrefix ==
    op \in CIDRTableOps =>
        \A k \in 1 .. Len(calls) :
            calls[k].args[6] = IPNetString(ParseCIDR(WellFormed(arg[2])[k]).ipNet)

\* The calls on the caller's Rule.
RuleCalls == Setters \cup {"NewRule", "Commit", "String"}

\* C23: a RuleSet holds its rules by value: no call on the caller's Rule,
\* SetLogging and Commit included, changes what the RuleSet holds, and the
\* text of a RuleSet changes only when AddRule is given a committed Rule
\* (NewAnchor begins another RuleSet).
C23_RuleSetHoldsCopies ==
    [][/\ op' \in RuleCalls =>
            /\ anchor'.RuleSet = anchor.RuleSet
            /\ RulesString(anchor'.RuleSet) = RulesString(anchor.RuleSet)
       /\ (op' # "NewAnchor" /\ RulesString(anchor'.RuleSet) # RulesString(anchor.RuleSet)) =>
            (op' = "AddRule" /\ arg'.committed)]_vars

\* SetLogging on the caller's Rule after that Rule was added: the RuleSet
\* still holds it without logging.
C23_Witness ==
    /\ op = "SetLogging"
    /\ rule.committed /\ rule.Log
    /\ Len(anchor.RuleSet) = 1
    /\ anchor.RuleSet[1] = [rule EXCEPT !.Log = FALSE]
    /\ hist.added = <<[rule EXCEPT !.Log = FALSE]>>
    /\ RulesString(anchor.RuleSet) = "block from any to any"

====
